---- MODULE Spec2Model ----
(***************************************************************************)
(* QECLab: the four decoders (repetition3, shor9, rotated_surface_d3,      *)
(* steane7) and the noise sweep run_code_on_noise_grid.                    *)
(*                                                                         *)
(* A measurement bitstring is a sequence over {0,1}; element 1 is the      *)
(* first character of the Python string.  A counts dictionary is a         *)
(* function from bitstrings to shot numbers.  A float rate is the reduced  *)
(* fraction <<num, den>>; 0.0 is <<0, 1>>.                                 *)
(***************************************************************************)
EXTENDS Integers, Sequences, FiniteSets, TLC

VARIABLES code, ps, noise_type, logical_state, shots, pc, idx, counts,
          results, rates, simCalls, raised, rate, logical_errors, total_shots,
          bitstring, logical_out

vars == <<code, ps, noise_type, logical_state, shots, pc, idx, counts,
          results, rates, simCalls, raised, rate, logical_errors, total_shots,
          bitstring, logical_out>>

\* ---------------------------------------------------------------- bounds
\* longest sequence of strengths handed to a sweep
MaxPoints == 3
\* largest shots argument of a sweep
MaxShots == 1
\* largest frequency of one entry of a counts dictionary handed to a decoder
MaxFreq == 2
\* largest number of entries of a counts dictionary handed to a decoder
MaxEntries == 2

\* ------------------------------------------------------- Python helpers
Bit == {0, 1}

Min(a, b) == IF a < b THEN a ELSE b

\* s[::-1]
Reverse(s) == [k \in 1..Len(s) |-> s[Len(s) + 1 - k]]

\* s[a:b] for 0 <= a <= b: the slice is clamped to the string
Slice(s, a, b) == [k \in 1..(Min(b, Len(s)) - Min(a, Len(s))) |-> s[Min(a, Len(s)) + k]]

\* s[start::3][:3]: every third character from start, at most three of them
Stride3(s, start) ==
    LET n == Cardinality({j \in 0..2 : start + 3 * j < Len(s)})
    IN  [k \in 1..n |-> s[start + 3 * (k - 1) + 1]]

\* s.count("1"), and list.count(1)
CountOnes(s) == Cardinality({k \in DOMAIN s : s[k] = 1})

\* the strings of length n over {0,1}
BitStrings(n) == [1..n -> Bit]

\* the strings of length at most n
BitStringsUpTo(n) == UNION {BitStrings(l) : l \in 0..n}

Codes == {"repetition3", "shor9", "rotated_surface_d3", "steane7"}

n_physical(c) ==
    CASE c = "repetition3" -> 3
      [] c = "shor9" -> 9
      [] c = "rotated_surface_d3" -> 17
      [] c = "steane7" -> 7

\* ------------------------------------------------- per-outcome decoding
\* A decoding is [err |-> a ValueError was raised, bit |-> the logical bit].
Decoded(b) == [err |-> FALSE, bit |-> b]
DecodeError == [err |-> TRUE, bit |-> 0]

\* RepetitionDecode with the threshold written "ones > 2"
RepetitionDecodeStrict(bs) == Decoded(IF CountOnes(bs) > 2 THEN 1 ELSE 0)

\* repetition3.py: ones = bitstring.count("1"); 1 if ones >= 2 else 0
RepetitionDecode(bs) == Decoded(IF CountOnes(bs) >= 2 THEN 1 ELSE 0)

\* shor9.py: majority within each triple of the reversed key, then across
ShorBlockValues(bs) ==
    LET bits == Reverse(bs)
    IN  [b \in 1..3 |->
            IF CountOnes(Slice(bits, 3 * (b - 1), 3 * (b - 1) + 3)) >= 2 THEN 1 ELSE 0]

\* ShorDecode with the two branches of the final vote swapped
ShorDecodeSwapped(bs) == Decoded(IF CountOnes(ShorBlockValues(bs)) >= 2 THEN 0 ELSE 1)

ShorDecode(bs) == Decoded(IF CountOnes(ShorBlockValues(bs)) >= 2 THEN 1 ELSE 0)

\* SurfaceDataBits without the reversal of the key
SurfaceDataBitsUnreversed(bs) == Slice(bs, 0, 9)

\* rotated_surface_d3.py: rows and columns of the first 9 reversed bits
SurfaceDataBits(bs) == Slice(Reverse(bs), 0, 9)

SurfaceRows(bs) ==
    [r \in 1..3 |->
        IF CountOnes(Slice(SurfaceDataBits(bs), 3 * (r - 1), 3 * (r - 1) + 3)) >= 2
        THEN 1 ELSE 0]

SurfaceCols(bs) ==
    [c \in 1..3 |->
        IF CountOnes(Stride3(SurfaceDataBits(bs), c - 1)) >= 2 THEN 1 ELSE 0]

SurfaceVotes(bs) == SurfaceRows(bs) \o SurfaceCols(bs)

SurfaceDecode(bs) == Decoded(IF CountOnes(SurfaceVotes(bs)) >= 3 THEN 1 ELSE 0)

\* steane7.py: the codeword tables
_EVEN_CODEWORDS ==
    << <<0,0,0,0,0,0,0>>,
       <<1,0,1,0,1,0,1>>,
       <<0,1,1,0,0,1,1>>,
       <<1,1,0,0,1,1,0>>,
       <<0,0,0,1,1,1,1>>,
       <<1,0,1,1,0,1,0>>,
       <<0,1,1,1,1,0,0>>,
       <<1,1,0,1,0,0,1>> >>

\* _ODD_CODEWORDS built without complementing the bits
_ODD_CODEWORDS_copied ==
    [k \in 1..Len(_EVEN_CODEWORDS) |->
        [j \in 1..Len(_EVEN_CODEWORDS[k]) |-> _EVEN_CODEWORDS[k][j]]]

_ODD_CODEWORDS ==
    [k \in 1..Len(_EVEN_CODEWORDS) |->
        [j \in 1..Len(_EVEN_CODEWORDS[k]) |->
            IF _EVEN_CODEWORDS[k][j] = 0 THEN 1 ELSE 0]]

\* _hamming_distance counting the positions that agree
_hamming_distance_equal(a, b) == Cardinality({k \in DOMAIN a : a[k] = b[k]})

\* steane7.py _hamming_distance (the lengths are equal wherever it is used)
_hamming_distance(a, b) == Cardinality({k \in DOMAIN a : a[k] # b[k]})

\* one pass of "for cw in table: if d < best_dist: ..." from entry k on;
\* best is <<best_dist, best_logical>>
RECURSIVE SteaneScan(_, _, _, _, _)
SteaneScan(table, label, data_bits, k, best) ==
    IF k > Len(table) THEN best
    ELSE LET d == _hamming_distance(data_bits, table[k])
         IN  SteaneScan(table, label, data_bits, k + 1,
                        IF d < best[1] THEN <<d, label>> ELSE best)

\* SteaneBest whose second pass starts again from best_dist = n_physical + 1
SteaneBestRestart(data_bits) ==
    SteaneScan(_ODD_CODEWORDS, 1, data_bits, 1, <<n_physical("steane7") + 1, 0>>)

\* <<best_dist, best_logical>> after both passes of _decode_logical_bit
SteaneBest(data_bits) ==
    SteaneScan(_ODD_CODEWORDS, 1, data_bits, 1,
               SteaneScan(_EVEN_CODEWORDS, 0, data_bits, 1, <<n_physical("steane7") + 1, 0>>))

\* steane7.py _decode_logical_bit
_decode_logical_bit(bs) ==
    IF Len(Reverse(bs)) < n_physical("steane7") THEN DecodeError
    ELSE Decoded(SteaneBest(Slice(Reverse(bs), 0, n_physical("steane7")))[2])

\* the decoding a code applies to one key of its counts dictionary
DecodeKey(c, bs) ==
    CASE c = "repetition3" -> RepetitionDecode(bs)
      [] c = "shor9" -> ShorDecode(bs)
      [] c = "rotated_surface_d3" -> SurfaceDecode(bs)
      [] c = "steane7" -> _decode_logical_bit(bs)

\* ------------------------------------------- logical_error_rate_from_counts
LogicalStates == {"0", "1"}

\* int(logical_state)
IntOf(ls) == IF ls = "1" THEN 1 ELSE 0

\* sum(f[k] for k in S)
RECURSIVE SumOver(_, _)
SumOver(f, S) ==
    IF S = {} THEN 0
    ELSE LET k == CHOOSE x \in S : TRUE
         IN  f[k] + SumOver(f, S \ {k})

\* sum(counts.values())
TotalShots(cnt) == SumOver(cnt, DOMAIN cnt)

\* logical_errors after the loop over counts.items()
LogicalErrors(c, cnt, expected) ==
    SumOver(cnt, {k \in DOMAIN cnt : DecodeKey(c, k).bit # expected})

RECURSIVE GCD(_, _)
GCD(a, b) == IF b = 0 THEN a ELSE GCD(b, a % b)

\* the float a / b (b > 0) as a reduced fraction
Fraction(a, b) == <<a \div GCD(a, b), b \div GCD(a, b)>>

RateValue(q) == [err |-> FALSE, num |-> q[1], den |-> q[2]]
RateError == [err |-> TRUE, num |-> 0, den |-> 1]
NoRate == [err |-> FALSE, num |-> 0, den |-> 0]

\* logical_error_rate_from_counts without the test of the zero total: the
\* division raises
logical_error_rate_unguarded(c, cnt, ls) ==
    IF ls \notin LogicalStates THEN RateError
    ELSE IF \E k \in DOMAIN cnt : DecodeKey(c, k).err THEN RateError
    ELSE IF TotalShots(cnt) = 0 THEN RateError
    ELSE RateValue(Fraction(LogicalErrors(c, cnt, IntOf(ls)), TotalShots(cnt)))

\* the value of code.logical_error_rate_from_counts(counts, logical_state):
\* the state is checked first, a key the decoder rejects raises inside the
\* loop, and the zero total is tested after the loop
logical_error_rate_from_counts(c, cnt, ls) ==
    IF ls \notin LogicalStates THEN RateError
    ELSE IF \E k \in DOMAIN cnt : DecodeKey(c, k).err THEN RateError
    ELSE IF TotalShots(cnt) = 0 THEN RateValue(<<0, 1>>)
    ELSE RateValue(Fraction(LogicalErrors(c, cnt, IntOf(ls)), TotalShots(cnt)))

\* ------------------------------------------------------------ noise models
\* the categories noise/models.py builds
NoiseCategories == {"bit_flip", "phase_flip", "depolarizing", "amplitude_damping"}

\* sweep.py: the builders the sweep registers
_NOISE_BUILDERS == {"bit_flip", "depolarizing", "amplitude_damping"}

\* every builder of noise/models.py starts with: if not 0.0 <= p <= 1.0: raise
NoiseBuilderRaises(p) == ~(0 <= p /\ p <= 1)

\* ------------------------------------------------------------ the sweep
\* DictSet that keeps the value a key already has (results.setdefault)
DictSetDefault(d, k, v) ==
    IF \E j \in DOMAIN d : d[j][1] = k THEN d ELSE Append(d, <<k, v>>)

\* results[p] = logical_error on a dict kept in insertion order
DictSet(d, k, v) ==
    IF \E j \in DOMAIN d : d[j][1] = k
    THEN [j \in DOMAIN d |-> IF d[j][1] = k THEN <<k, v>> ELSE d[j]]
    ELSE Append(d, <<k, v>>)

\* strengths handed to a sweep: both ends of [0,1] and one value beyond each
Strengths == {0 - 1, 0, 1, 2}

SeqsUpTo(S, n) == UNION {[1..l -> S] : l \in 0..n}

\* a string of n characters b
Fill(n, b) == [k \in 1..n |-> b]

\* what simulator.run(...).result().get_counts() can return for a circuit
\* measuring n bits: the observed outcomes, their frequencies summing to shots
SimulatorCounts(n, sh) ==
    {[k \in {Fill(n, b) : b \in {b \in Bit : (IF b = 0 THEN a ELSE sh - a) > 0}}
        |-> IF k = Fill(n, 0) THEN a ELSE sh - a] : a \in 0..sh}

IdleDecoder ==
    /\ rate = NoRate
    /\ logical_errors = 0
    /\ total_shots = 0
    /\ bitstring = <<>>
    /\ logical_out = DecodeError

InitSweep ==
    /\ code \in Codes
    /\ ps \in SeqsUpTo(Strengths, MaxPoints)
    /\ noise_type \in NoiseCategories \cup {"thermal"}
    /\ logical_state \in LogicalStates \cup {"+"}
    /\ shots \in 1..MaxShots
    /\ pc = "call"
    /\ idx = 1
    /\ counts = <<>>
    /\ results = <<>>
    /\ rates = <<>>
    /\ simCalls = 0
    /\ raised = "none"
    /\ IdleDecoder

\* Raise that swallows the failure and hands back the table built so far
RaiseAndReturn(what) ==
    /\ pc' = "returned"
    /\ raised' = what

Raise(what) ==
    /\ pc' = "raised"
    /\ raised' = what

\* sweep.py 64-68
CheckNoiseType ==
    /\ pc = "call"
    /\ IF noise_type \notin _NOISE_BUILDERS
       THEN Raise("noise_type") /\ UNCHANGED <<results, idx>>
       ELSE /\ results' = <<>>
            /\ idx' = 1
            /\ pc' = "for"
            /\ UNCHANGED raised
    /\ UNCHANGED <<code, ps, noise_type, logical_state, shots, counts, rates,
                   simCalls, rate, logical_errors, total_shots, bitstring,
                   logical_out>>

\* sweep.py 70-71: the next p and noise_builder(p)
NoiseBuild ==
    /\ pc = "for"
    /\ idx <= Len(ps)
    /\ IF NoiseBuilderRaises(ps[idx])
       THEN Raise("p")
       ELSE pc' = "build_circuit" /\ UNCHANGED raised
    /\ UNCHANGED <<code, ps, noise_type, logical_state, shots, idx, counts,
                   results, rates, simCalls, rate, logical_errors, total_shots,
                   bitstring, logical_out>>

\* sweep.py 72: code.build_circuit(logical_state=logical_state)
BuildCircuit ==
    /\ pc = "build_circuit"
    /\ IF logical_state \notin LogicalStates
       THEN Raise("logical_state")
       ELSE pc' = "run" /\ UNCHANGED raised
    /\ UNCHANGED <<code, ps, noise_type, logical_state, shots, idx, counts,
                   results, rates, simCalls, rate, logical_errors, total_shots,
                   bitstring, logical_out>>

\* sweep.py 73-75: one simulator invocation
Simulate ==
    /\ pc = "run"
    /\ counts' \in SimulatorCounts(n_physical(code), shots)
    /\ simCalls' = simCalls + 1
    /\ pc' = "decode"
    /\ UNCHANGED <<code, ps, noise_type, logical_state, shots, idx, results,
                   rates, raised, rate, logical_errors, total_shots, bitstring,
                   logical_out>>

\* sweep.py 73-75: the simulator invocation fails (transpile, run or result
\* raises); nothing catches it
SimulateFails ==
    /\ pc = "run"
    /\ simCalls' = simCalls + 1
    /\ Raise("simulator")
    /\ UNCHANGED <<code, ps, noise_type, logical_state, shots, idx, counts,
                   results, rates, rate, logical_errors, total_shots, bitstring,
                   logical_out>>

\* sweep.py 76-79: decode and record
DecodeRecord ==
    /\ pc = "decode"
    /\ LET r == logical_error_rate_from_counts(code, counts, logical_state)
       IN  IF r.err
           THEN Raise("bitstring") /\ UNCHANGED <<results, rates, idx>>
           ELSE /\ results' = DictSet(results, ps[idx], r)
                /\ rates' = Append(rates, r)
                /\ idx' = idx + 1
                /\ pc' = "for"
                /\ UNCHANGED raised
    /\ UNCHANGED <<code, ps, noise_type, logical_state, shots, counts,
                   simCalls, rate, logical_errors, total_shots, bitstring,
                   logical_out>>

\* sweep.py 84: return results
Return ==
    /\ pc = "for"
    /\ idx > Len(ps)
    /\ pc' = "returned"
    /\ UNCHANGED <<code, ps, noise_type, logical_state, shots, idx, counts,
                   results, rates, simCalls, raised, rate, logical_errors,
                   total_shots, bitstring, logical_out>>

NextSweep ==
    \/ CheckNoiseType
    \/ NoiseBuild
    \/ BuildCircuit
    \/ Simulate
    \/ SimulateFails
    \/ DecodeRecord
    \/ Return

SpecSweep == InitSweep /\ [][NextSweep]_vars

\* ------------------------------------- decoding one counts dictionary
IdleSweep ==
    /\ ps = <<>>
    /\ noise_type = "bit_flip"
    /\ shots = 1
    /\ idx = 1
    /\ results = <<>>
    /\ rates = <<>>
    /\ simCalls = 0
    /\ raised = "none"

\* the 3-character word w repeated up to n characters
Tile(w, n) == [k \in 1..n |-> w[((k - 1) % 3) + 1]]

\* keys of the dictionaries handed to a decoder: every 3-character pattern
\* tiled to the code's length and to one character less
RateKeys(c) ==
    {Tile(w, l) : w \in BitStrings(3), l \in (n_physical(c) - 1)..n_physical(c)}

\* the dictionaries with at most MaxEntries of these keys
CountsOver(K) ==
    UNION {[D -> 0..MaxFreq] : D \in {D \in SUBSET K : Cardinality(D) <= MaxEntries}}

InitRate ==
    /\ code \in Codes
    /\ counts \in CountsOver(RateKeys(code))
    /\ logical_state \in LogicalStates \cup {"+"}
    /\ pc = "call"
    /\ rate = NoRate
    /\ logical_errors = 0
    /\ total_shots = 0
    /\ bitstring = <<>>
    /\ logical_out = DecodeError
    /\ IdleSweep

\* one call of c's logical_error_rate_from_counts; total_shots and
\* logical_errors are the locals as the call leaves them
RateCall(c) ==
    /\ pc = "call"
    /\ code = c
    /\ rate' = logical_error_rate_from_counts(c, counts, logical_state)
    /\ total_shots' = IF logical_state \in LogicalStates THEN TotalShots(counts) ELSE 0
    /\ logical_errors' =
          IF rate'.err THEN 0 ELSE LogicalErrors(c, counts, IntOf(logical_state))
    /\ pc' = IF rate'.err THEN "raised" ELSE "returned"
    /\ raised' = IF ~rate'.err THEN "none"
                 ELSE IF logical_state \notin LogicalStates THEN "logical_state"
                 ELSE "bitstring"
    /\ UNCHANGED <<code, ps, noise_type, logical_state, shots, idx, counts,
                   results, rates, simCalls, bitstring, logical_out>>

\* repetition3.py 37-62
RepetitionRate == RateCall("repetition3")
\* shor9.py 46-72
ShorRate == RateCall("shor9")
\* rotated_surface_d3.py 63-93
SurfaceRate == RateCall("rotated_surface_d3")
\* steane7.py 103-123
SteaneRate == RateCall("steane7")

NextRate ==
    \/ RepetitionRate
    \/ ShorRate
    \/ SurfaceRate
    \/ SteaneRate

SpecRate == InitRate /\ [][NextRate]_vars

\* --------------------------------------------- decoding one outcome key
IdleRate ==
    /\ counts = <<>>
    /\ logical_state = "0"
    /\ rate = NoRate
    /\ logical_errors = 0
    /\ total_shots = 0

\* the loop body of a decoder on one key
OutcomeCall(c) ==
    /\ pc = "key"
    /\ code = c
    /\ logical_out' = DecodeKey(c, bitstring)
    /\ pc' = IF logical_out'.err THEN "raised" ELSE "decoded"
    /\ raised' = IF logical_out'.err THEN "bitstring" ELSE "none"
    /\ UNCHANGED <<code, ps, noise_type, logical_state, shots, idx, counts,
                   results, rates, simCalls, rate, logical_errors, total_shots,
                   bitstring>>

\* repetition3.py 53-57
RepetitionOutcome == OutcomeCall("repetition3")
\* shor9.py 58-67
ShorOutcome == OutcomeCall("shor9")
\* rotated_surface_d3.py 75-88
SurfaceOutcome == OutcomeCall("rotated_surface_d3")
\* steane7.py 116
SteaneOutcome == OutcomeCall("steane7")

\* every key of up to n_physical characters, for the three smaller codes
InitKey ==
    /\ code \in Codes \ {"rotated_surface_d3"}
    /\ bitstring \in BitStringsUpTo(n_physical(code))
    /\ pc = "key"
    /\ logical_out = DecodeError
    /\ IdleRate
    /\ IdleSweep

NextKey ==
    \/ RepetitionOutcome
    \/ ShorOutcome
    \/ SteaneOutcome

SpecKey == InitKey /\ [][NextKey]_vars

\* every 17-character key of the rotated surface code
InitSurface ==
    /\ code = "rotated_surface_d3"
    /\ bitstring \in BitStrings(n_physical(code))
    /\ pc = "key"
    /\ logical_out = DecodeError
    /\ IdleRate
    /\ IdleSweep

NextSurface == SurfaceOutcome

SpecSurface == InitSurface /\ [][NextSurface]_vars

\* ================================================================ claims
\* ---- helpers used only to state the claims
\* the number of positions where two words differ
Differ(a, b) == SumOver([k \in DOMAIN a |-> (a[k] + b[k]) % 2], DOMAIN a)

\* the least distance from w to a codeword of the table
MinDist(w, table) ==
    CHOOSE d \in 0..Len(w) :
        /\ \E k \in DOMAIN table : Differ(w, table[k]) = d
        /\ \A k \in DOMAIN table : Differ(w, table[k]) >= d

\* the last position of strength p in the sweep's input
LastIndex(p) == CHOOSE k \in DOMAIN ps : ps[k] = p /\ \A j \in DOMAIN ps : ps[j] = p => j <= k

\* the first position of strength p in the sweep's input
FirstIndex(p) == CHOOSE k \in DOMAIN ps : ps[k] = p /\ \A j \in DOMAIN ps : ps[j] = p => j >= k

\* C1: in a sweep, every argument-validation error (noise category, strength
\* out of [0,1] at any position, logical state) is raised before any
\* simulator invocation of that call.
C1_ValidationBeforeSimulation ==
    (pc = "raised" /\ raised \in {"noise_type", "p", "logical_state"})
        => simCalls = 0

\* C2 as claimed: a successful sweep returns exactly one (strength, rate)
\* pair per requested strength, in input order, repeated strengths included.
C2_OnePairPerRequestedStrength ==
    pc = "returned" => results = [k \in DOMAIN ps |-> <<ps[k], rates[k]>>]

\* C2 as amended: a successful sweep returns one pair per distinct requested
\* strength, ordered by first occurrence, each with the rate decoded at the
\* strength's last occurrence; without repeats this is one pair per requested
\* strength in input order.
C2_OnePairPerDistinctStrength ==
    pc = "returned" =>
        /\ {results[j][1] : j \in DOMAIN results} = {ps[k] : k \in DOMAIN ps}
        /\ Len(results) = Cardinality({ps[k] : k \in DOMAIN ps})
        /\ \A a, b \in DOMAIN results :
              a < b => FirstIndex(results[a][1]) < FirstIndex(results[b][1])
        /\ \A j \in DOMAIN results : results[j][2] = rates[LastIndex(results[j][1])]
        /\ (Cardinality({ps[k] : k \in DOMAIN ps}) = Len(ps)
               => results = [k \in DOMAIN ps |-> <<ps[k], rates[k]>>])

\* a sweep returned whose first and third strengths are equal and were
\* decoded to different rates
C2_Witness ==
    /\ pc = "returned"
    /\ Len(ps) = 3
    /\ ps[1] = ps[3]
    /\ ps[1] # ps[2]
    /\ rates[1] # rates[3]

\* C3: each decoder's logical_error_rate_from_counts fails whenever the
\* distribution has a key shorter than the code's physical qubit count.
C3_ShortKeyRejected ==
    (pc \in {"returned", "raised"}
        /\ \E k \in DOMAIN counts : Len(k) < n_physical(code))
        => rate.err

\* C4 as claimed: for every decoder and valid expected state a distribution
\* of total frequency zero yields rate 0.0 and no error, whatever its keys.
C4_ZeroTotalYieldsZero ==
    (pc \in {"returned", "raised"}
        /\ logical_state \in LogicalStates
        /\ \A k \in DOMAIN counts : counts[k] = 0)
        => (pc = "returned" /\ rate = [err |-> FALSE, num |-> 0, den |-> 1])

\* C4 as amended: for every decoder and valid expected state a distribution
\* of total frequency zero whose keys all have at least the code's physical
\* qubit count yields rate 0.0 and no error.
C4_ZeroTotalFullKeysYieldsZero ==
    (pc \in {"returned", "raised"}
        /\ logical_state \in LogicalStates
        /\ \A k \in DOMAIN counts : counts[k] = 0 /\ Len(k) >= n_physical(code))
        => (pc = "returned" /\ rate = [err |-> FALSE, num |-> 0, den |-> 1])

\* the Steane decoder returned from two full-length keys of frequency zero
C4_Witness ==
    /\ pc = "returned"
    /\ code = "steane7"
    /\ Cardinality(DOMAIN counts) = 2
    /\ \A k \in DOMAIN counts : counts[k] = 0 /\ Len(k) = 7

\* at least 2 of the 3 bits of k are set
TwoOfThree(k) == k[1] + k[2] + k[3] >= 2

\* the distribution {"000": 900, "111": 100}
C5_Example == (<<0, 0, 0>> :> 900) @@ (<<1, 1, 1>> :> 100)

\* C5: the majority-vote decoder decodes a 3-bit outcome to ONE iff at least
\* 2 of its bits are set, and its logical error count is the sum of the
\* frequencies of the outcomes decoded to the other state than expected
\* ({"000": 900, "111": 100}: 100 of 1000 for ZERO, 900 of 1000 for ONE).
C5_MajorityVote ==
    /\ (pc = "returned" /\ code = "repetition3"
           /\ \A k \in DOMAIN counts : Len(k) = 3)
        => /\ \A k \in DOMAIN counts :
                 DecodeKey(code, k) =
                     [err |-> FALSE, bit |-> IF TwoOfThree(k) THEN 1 ELSE 0]
           /\ logical_errors =
                 SumOver(counts, {k \in DOMAIN counts :
                                     TwoOfThree(k) # (logical_state = "1")})
           /\ total_shots = SumOver(counts, DOMAIN counts)
           /\ ~rate.err
           /\ rate.num * total_shots = logical_errors * rate.den
    /\ LogicalErrors("repetition3", C5_Example, 0) = 100
    /\ LogicalErrors("repetition3", C5_Example, 1) = 900
    /\ logical_error_rate_from_counts("repetition3", C5_Example, "0")
          = [err |-> FALSE, num |-> 1, den |-> 10]
    /\ logical_error_rate_from_counts("repetition3", C5_Example, "1")
          = [err |-> FALSE, num |-> 9, den |-> 10]

\* the majority-vote decoder returned from "011" and "100", expected ZERO
C5_Witness ==
    /\ pc = "returned"
    /\ code = "repetition3"
    /\ logical_state = "0"
    /\ DOMAIN counts = {<<0, 1, 1>>, <<1, 0, 0>>}
    /\ counts[<<0, 1, 1>>] = 2
    /\ counts[<<1, 0, 0>>] = 1
    /\ logical_errors = 2

\* the 9-bit key with a single 1, at position j
OneHot9(j) == [k \in 1..9 |-> IF k = j THEN 1 ELSE 0]

\* C6: the Shor decoder decodes every 9-bit outcome with exactly one bit
\* flipped from all-zero, at any position, like the all-zero outcome: ZERO.
C6_SingleFlipDecodesZero ==
    (pc = "decoded" /\ code = "shor9"
        /\ (bitstring = [k \in 1..9 |-> 0] \/ \E j \in 1..9 : bitstring = OneHot9(j)))
        => logical_out = [err |-> FALSE, bit |-> 0]

\* the Shor decoder decoded the key whose only 1 is at position 5
C6_Witness ==
    /\ pc = "decoded"
    /\ code = "shor9"
    /\ bitstring = OneHot9(5)

\* the word the Steane decoder compares with its tables: the reversed key
Received == [k \in 1..Len(bitstring) |-> bitstring[Len(bitstring) + 1 - k]]

\* C7: the Steane decoder decodes the all-zero 7-bit word to ZERO at minimum
\* distance 0, the all-ones word to ONE at minimum distance 0, and every
\* 7-bit word at distance 1 from some ZERO-set codeword and at distance at
\* least 3 from every ONE-set codeword to ZERO.  (No 7-bit word meets both
\* distance conditions, so the last conjunct states the case without the
\* second condition as well.)
C7_NearestCodeword ==
    (pc = "decoded" /\ code = "steane7" /\ Len(bitstring) = 7)
        => /\ bitstring = <<0, 0, 0, 0, 0, 0, 0>>
                => (logical_out = [err |-> FALSE, bit |-> 0]
                       /\ SteaneBest(Received)[1] = 0)
           /\ bitstring = <<1, 1, 1, 1, 1, 1, 1>>
                => (logical_out = [err |-> FALSE, bit |-> 1]
                       /\ SteaneBest(Received)[1] = 0)
           /\ ((\E k \in DOMAIN _EVEN_CODEWORDS :
                     Differ(Received, _EVEN_CODEWORDS[k]) = 1)
                 /\ \A k \in DOMAIN _ODD_CODEWORDS :
                     Differ(Received, _ODD_CODEWORDS[k]) >= 3)
                => logical_out = [err |-> FALSE, bit |-> 0]
           /\ (\E k \in DOMAIN _EVEN_CODEWORDS :
                     Differ(Received, _EVEN_CODEWORDS[k]) = 1)
                => logical_out = [err |-> FALSE, bit |-> 0]

\* the Steane decoder decoded the all-ones key to ONE
C7_Witness ==
    /\ pc = "decoded"
    /\ code = "steane7"
    /\ bitstring = <<1, 1, 1, 1, 1, 1, 1>>
    /\ logical_out.bit = 1

\* the received word is as near to the ZERO set as to the ONE set
Equidistant(w) == MinDist(w, _EVEN_CODEWORDS) = MinDist(w, _ODD_CODEWORDS)

\* C8 as claimed: some 7-bit word is equidistant from its nearest ZERO-set
\* and ONE-set codewords, and every such word decodes to ZERO.
C8_TieExistsAndResolvesToZero ==
    /\ \E w \in BitStrings(7) : Equidistant(w)
    /\ (pc = "decoded" /\ code = "steane7" /\ Len(bitstring) = 7
           /\ Equidistant(Received))
        => logical_out = [err |-> FALSE, bit |-> 0]

\* C8 as amended: no 7-bit word is equidistant from its nearest ZERO-set and
\* ONE-set codewords; the decoder answers ONE exactly when the ONE set is
\* strictly nearer, and ZERO otherwise.
C8_NoTieStrictImprovement ==
    (pc = "decoded" /\ code = "steane7" /\ Len(bitstring) = 7)
        => /\ ~Equidistant(Received)
           /\ ~logical_out.err
           /\ logical_out.bit = 1
                <=> MinDist(Received, _ODD_CODEWORDS) < MinDist(Received, _EVEN_CODEWORDS)

\* the Steane decoder decoded a word one bit away from the ONE set to ONE
C8_Witness ==
    /\ pc = "decoded"
    /\ code = "steane7"
    /\ Len(bitstring) = 7
    /\ MinDist(Received, _ODD_CODEWORDS) = 1
    /\ MinDist(Received, _EVEN_CODEWORDS) = 2
    /\ logical_out.bit = 1

\* C9: the sweep accepts bit_flip, phase_flip, depolarizing and
\* amplitude_damping and rejects only a category outside that set.
C9_FourCategoriesAccepted ==
    (pc = "raised" /\ raised = "noise_type")
        => noise_type \notin {"bit_flip", "phase_flip", "depolarizing", "amplitude_damping"}

\* data bit j (0..8) of a 17-bit key: character j of the reversed key
DataBit(j) == bitstring[17 - j]

\* the six votes: three row majorities and three column majorities
VotesForOne ==
    Cardinality({r \in 0..2 : DataBit(3 * r) + DataBit(3 * r + 1) + DataBit(3 * r + 2) >= 2})
    + Cardinality({c \in 0..2 : DataBit(c) + DataBit(c + 3) + DataBit(c + 6) >= 2})

\* the key with its 8 ancilla characters (the first 8) replaced by zeros
AncillaCleared == [k \in 1..17 |-> IF k <= 8 THEN 0 ELSE bitstring[k]]

\* C10: on a 17-bit key the surface decoder answers ONE iff at least 3 of
\* the 6 row and column votes over the 9 data bits are 1; the 8 ancilla bits
\* do not matter, and all-zero data bits decode to ZERO for every ancilla.
C10_RowColumnVote ==
    (pc = "decoded" /\ code = "rotated_surface_d3" /\ Len(bitstring) = 17)
        => /\ logical_out = [err |-> FALSE, bit |-> IF VotesForOne >= 3 THEN 1 ELSE 0]
           /\ logical_out = DecodeKey(code, AncillaCleared)
           /\ (\A j \in 0..8 : DataBit(j) = 0) => logical_out.bit = 0

\* the surface decoder decoded a key with all-zero data and all-one ancillas
C10_Witness ==
    /\ pc = "decoded"
    /\ code = "rotated_surface_d3"
    /\ bitstring = [k \in 1..17 |-> IF k <= 8 THEN 1 ELSE 0]
    /\ logical_out.bit = 0

\* what holds of a sweep in every state: a failure is pending exactly when
\* the call has raised; idx - 1 points are completed and recorded, in input
\* order; the simulator has run once per completed point and at most once
\* for the current one; after a failure at point idx no later point has
\* been simulated
C11_State ==
    /\ (raised # "none") <=> (pc = "raised")
    /\ Len(rates) = idx - 1
    /\ idx <= Len(ps) + 1
    /\ {results[j][1] : j \in DOMAIN results} = {ps[k] : k \in 1..(idx - 1)}
    /\ simCalls = (IF pc = "decode" \/ (pc = "raised" /\ raised = "simulator")
                   THEN idx ELSE idx - 1)
    /\ pc \in {"build_circuit", "run", "decode"} => idx <= Len(ps)
    /\ (pc = "raised" /\ raised # "noise_type") => idx <= Len(ps)
    /\ pc = "returned" => idx = Len(ps) + 1

\* what holds of every step of a sweep: the steps of a point follow one
\* another (noise build, circuit build, simulator call, decode and record);
\* a failed step records nothing; nothing follows a failure or the return
C11_Step ==
    /\ pc \notin {"raised", "returned"}
    /\ pc = "for" => pc' \in {"build_circuit", "raised", "returned"}
    /\ pc = "build_circuit" => pc' \in {"run", "raised"}
    /\ pc = "run" => (pc' \in {"decode", "raised"} /\ simCalls' = simCalls + 1)
    /\ pc = "decode" => pc' \in {"for", "raised"}
    /\ pc # "run" => simCalls' = simCalls
    /\ idx' = (IF pc = "decode" /\ pc' = "for" THEN idx + 1 ELSE idx)
    /\ pc' = "raised" => (results' = results /\ rates' = rates)
    /\ pc' = "returned" => (results' = results /\ raised = "none")

\* C11: the sweep processes its points one at a time in input order (noise
\* build, circuit build, one simulator call, one decode, record); a step
\* that fails at point i propagates to the caller unretried, no later point
\* is built or simulated, and no result table is returned, not even for the
\* points completed before i.
C11_SequentialAndFatal == []C11_State /\ [][C11_Step]_vars

\* the simulator failed at the second of three points, after the first
\* point was recorded
C11_Witness ==
    /\ pc = "raised"
    /\ raised = "simulator"
    /\ Len(ps) = 3
    /\ idx = 2
    /\ Len(results) = 1
    /\ simCalls = 2

\* the bitwise complement of a key
Complement(bs) == [k \in DOMAIN bs |-> 1 - bs[k]]

\* C12: for the majority-vote decoder on 3-bit keys, the Shor decoder on
\* 9-bit keys and the Steane decoder on 7-bit keys, the complement of an
\* outcome decodes to the opposite logical bit; for the Steane decoder no
\* 7-bit word is resolved by the tie-break.
C12_ComplementFlipsLogicalBit ==
    (pc = "decoded" /\ code \in {"repetition3", "shor9", "steane7"}
        /\ Len(bitstring) = n_physical(code))
        => /\ DecodeKey(code, Complement(bitstring))
                 = [err |-> FALSE, bit |-> 1 - logical_out.bit]
           /\ code = "steane7" => ~Equidistant(Received)

\* the Steane decoder decoded "1111110" to ONE, and its complement "0000001"
\* decodes to ZERO
C12_Witness ==
    /\ pc = "decoded"
    /\ code = "steane7"
    /\ bitstring = <<1, 1, 1, 1, 1, 1, 0>>
    /\ logical_out.bit = 1
    /\ DecodeKey("steane7", <<0, 0, 0, 0, 0, 0, 1>>).bit = 0

====
